---- MODULE Spec2Model ----
(***************************************************************************)
(* Model of swinv2_pretraining_loop.py: the startup restore sequence, the  *)
(* pmap'ed train/eval steps over the replicas, the epoch boundary (metric  *)
(* snapshots, validation loop, checkpoint save with best-2 retention) and  *)
(* re-runs of the script under the same run name; and of the weight-decay  *)
(* predicate should_decay of create_train_state.                           *)
(*                                                                         *)
(* Tensors are abstracted to small integers: a parameter tree is a number  *)
(* modulo ParamMod, a batch shard a number in Batches.  The network        *)
(* (apply_fn) is opaque: LossOf and GradOf stand for it as fixed functions *)
(* of the parameters, the batch shard and the dropout key.                 *)
(***************************************************************************)
EXTENDS Integers, Sequences, FiniteSets, TLC

\* ---------------------------------------------------------------- bounds
NumReplicas == 2
MaxEpochs == 2
MaxStepsPerEpoch == 2
MaxValSamples == 2
MaxValBatches == 1
MaxRuns == 2
MaxLoss == 2
MaxBatch == 1
ParamMod == 3
OptMod == 2
MaxPathLen == 3

\* ------------------------------------------------------ program constants
\* max_to_keep=2
MaxToKeep == 2
\* if step % 256 == 0
DisplayEvery == 256
\* global_batch_size = batch_size * compute_units, per-device batch size 1
global_batch_size == 1 * NumReplicas

Replicas == 1..NumReplicas
\* What a batch shard of one device can hold
Batches == 0..MaxBatch

VARIABLES
    pc,               \* position of the script
    args,             \* parsed arguments and dataset specs of this run
    run,              \* number of the run of the script under this run name
    host_state,       \* `state` before jax_utils.replicate
    state,            \* `state` after replicate: one TrainState per replica
    val_state,        \* `val_state`, one per replica
    metrics_history,  \* [train_loss, val_loss]
    store,            \* <checkpoints_root>/<run_name>: the persisted records
    latest_epoch,
    epochs,
    step,             \* loop variable of enumerate(train_ds)
    val_step,         \* loop variable of enumerate(val_ds)
    val_left,         \* batches val_ds can still yield (-1: it repeats forever)
    obs,              \* observations of the run (history variables)
    saved,            \* the metric of every save call under this run name
    total_epochs,     \* epoch boundaries passed under this run name, all runs
    path,             \* should_decay: the parameter path
    wd                \* should_decay: its result

vars == <<pc, args, run, host_state, state, val_state, metrics_history, store,
          latest_epoch, epochs, step, val_step, val_left, obs, saved,
          total_epochs, path, wd>>

decayVars == <<path, wd>>

persistVars == <<total_epochs, path, wd>>

\* ------------------------------------------------ metrics (clu Average)
\* collection.empty(): total 0, count 0
EmptyMetrics == [total |-> 0, count |-> 0]

RECURSIVE GCD(_, _)
GCD(a, b) == IF b = 0 THEN a ELSE GCD(b, a % b)

\* The float 0/0
NaN == <<0, 0>>

\* Average.compute(): total / count, as a fraction in lowest terms
Compute(m) ==
    IF m.count = 0 THEN NaN
    ELSE LET g == GCD(m.total, m.count) IN <<m.total \div g, m.count \div g>>

\* a < b on the computed floats; every comparison with NaN is false
FloatLess(a, b) == a[1] * b[2] < b[1] * a[2]

\* Metric.merge: sum of totals, sum of counts
Merge(a, b) == [total |-> a.total + b.total, count |-> a.count + b.count]

RECURSIVE SumOver(_, _)
SumOver(f, S) ==
    IF S = {} THEN 0
    ELSE LET x == CHOOSE y \in S : TRUE IN f[x] + SumOver(f, S \ {x})

\* Metrics.gather_from_model_output(loss=loss) on replica r: the scalar losses
\* of all replicas are all-gathered over axis "batch" and reduced
GatherFromModelOutput(losses, r) ==
    [total |-> SumOver(losses, Replicas), count |-> NumReplicas]

\* ------------------------------------------------------------ TrainState
\* TrainState.create: step 0, fresh parameters, tx.init(params), empty metrics
FreshState == [step |-> 0, params |-> 0, opt_state |-> 0, metrics |-> EmptyMetrics]

\* A replica that applies its own gradient
PMeanLocal(grads, r) == grads[r]

\* jax.lax.pmean(grads, axis_name="batch") as seen by replica r
PMean(grads, r) == SumOver(grads, Replicas) \div NumReplicas

\* state.apply_gradients(grads=g): step + 1, new params, new optimizer state
ApplyGradients(st, g) ==
    [st EXCEPT !.step = @ + 1,
               !.params = (@ + g) % ParamMod,
               !.opt_state = (@ + g + 1) % OptMod]

\* dropout_keys[r], folded with the step: jax.random.fold_in(dropout_key, state.step)
FoldIn(r, s) == r + s

\* The loss apply_fn returns for parameters p on batch shard b (1..MaxLoss)
LossOf(p, b) == 1 + ((p + b) % MaxLoss)

\* The gradient of that loss under dropout key k
GradOf(p, b, k) == (p + b + k) % ParamMod

\* train_step on replica r of the pmap: batch[q] is the shard of replica q
train_step(sts, batch, r) ==
    LET grads == [q \in Replicas |->
                    GradOf(sts[q].params, batch[q], FoldIn(q, sts[q].step))]
        losses == [q \in Replicas |-> LossOf(sts[q].params, batch[q])]
        st1 == ApplyGradients(sts[r], PMean(grads, r))
    IN [st1 EXCEPT !.metrics = Merge(st1.metrics, GatherFromModelOutput(losses, r))]

\* eval_step on replica r of the pmap
eval_step(sts, batch, r) ==
    LET losses == [q \in Replicas |-> LossOf(sts[q].params, batch[q])]
    IN [sts[r] EXCEPT !.metrics = Merge(@, GatherFromModelOutput(losses, r))]

\* jax_utils.replicate
Replicate(x) == [r \in Replicas |-> x]

\* jax_utils.unreplicate: the copy of the first device
Unreplicate(xs) == xs[1]

\* ------------------------------------------------------ checkpoint stores
\* latest_step() of a store without records
NoStep == 0 - 1

\* metrics_history = {"train_loss": [], ..., "val_loss": [], ...}
EmptyHistory == [train_loss |-> <<>>, val_loss |-> <<>>]

\* ckpt = {"model": ..., "metrics_history": ...} saved under an epoch index with
\* metrics={"val_loss": ...}
Record(i, m, h, v) == [index |-> i, model |-> m, metrics_history |-> h, val_loss |-> v]

\* The store --restore-params-ckpt names (0: the option is absent)
ExternalStoreAt(p) ==
    CASE p = 1 -> { Record(1, [step |-> 2, params |-> 1, opt_state |-> 0,
                               metrics |-> [total |-> 2, count |-> 2]],
                           [train_loss |-> <<<<2, 1>>>>, val_loss |-> <<<<1, 1>>>>],
                           <<1, 1>>),
                    Record(2, [step |-> 4, params |-> 2, opt_state |-> 1,
                               metrics |-> [total |-> 4, count |-> 2]],
                           [train_loss |-> <<<<2, 1>>, <<1, 1>>>>,
                            val_loss |-> <<<<1, 1>>, <<2, 1>>>>],
                           <<2, 1>>) }
      [] OTHER -> {}
NumExternal == 1

\* CheckpointManager.latest_step(): the highest index persisted, or None
LatestStep(S) ==
    IF S = {} THEN NoStep
    ELSE CHOOSE i \in {r.index : r \in S} : \A r \in S : r.index <= i

\* CheckpointManager.restore(i)
Restore(S, i) == CHOOSE r \in S : r.index = i

\* best_fn=lambda metrics: metrics["val_loss"], best_mode="min":
\* metric a ranks strictly below metric b
Worse(a, b) == FloatLess(b, a)

\* The records a save may evict from S when S exceeds max_to_keep: those that no
\* record ranks below; among equal metrics the earliest index goes first (the
\* sort is stable); with a NaN metric the sort order is not defined
Evictable(S) ==
    LET last == {r \in S : \A o \in S : ~Worse(o.val_loss, r.val_loss)}
    IN IF \E r \in S : r.val_loss = NaN THEN last
       ELSE {r \in last : \A o \in last : r.index <= o.index}

\* should_save(step): a step at or below the manager's last step is not saved
Collides(S, i) == S # {} /\ i <= LatestStep(S)

\* state.replace(**restored["model"]): everything the record holds
ReplaceAll(st, restored) == restored.model

\* Line 373: state.replace(params=restored["model"].params)
TransferReplace(st, restored) == [st EXCEPT !.params = restored.model.params]

\* Line 379: state.replace(params=restored["model"].params)
ResumeReplace(st, restored) == [st EXCEPT !.params = restored.model.params]

\* ------------------------------------------------------------ the script
\* val_samples // global_batch_size
ValSteps == args.val_samples \div global_batch_size

\* What a command line and its dataset can be: --epochs, --restore-params-ckpt,
\* train_samples // global_batch_size (at least one step per epoch), val_samples,
\* and the number of batches val_ds yields before it runs dry (-1: never)
ArgSets ==
    [num_epochs : 0..MaxEpochs,
     restore_params_ckpt : 0..NumExternal,
     num_steps_per_epoch : 1..MaxStepsPerEpoch,
     val_samples : {0, MaxValSamples},
     val_batches : (0 - 1)..MaxValBatches]

\* History variables of one run: counts of train steps, train snapshots, save
\* calls and eval steps of the current epoch; the site and the count of the last
\* compute(); the raw losses of all replicas summed over the epoch's train and
\* eval steps; of the last train step, the mean of all gradients, what each
\* replica applied, whether the gradients differed and each replica's step
\* before it; the records the two restores read; the metric of the last save
NoObs ==
    [nTrain |-> 0, nSnap |-> 0, nSave |-> 0, nEval |-> 0,
     site |-> "none", count |-> 1,
     trainAcc |-> EmptyMetrics, evalAcc |-> EmptyMetrics,
     mean |-> 0, applied |-> Replicate(0), differ |-> FALSE,
     prevStep |-> Replicate(0 - 1),
     transfer |-> {}, resumed |-> {},
     saveMetric |-> NaN]

\* Lines 222-364: arguments parsed, datasets opened, state created, managers built
Startup(a) ==
    /\ pc' = "transfer"
    /\ args' = a
    /\ val_left' = a.val_batches
    /\ host_state' = FreshState
    /\ state' = Replicate(FreshState)
    /\ val_state' = Replicate(FreshState)
    /\ metrics_history' = EmptyHistory
    /\ latest_epoch' = NoStep
    /\ epochs' = 0
    /\ step' = 0
    /\ val_step' = 0
    /\ obs' = NoObs

\* The first run under a run name: the store is empty
Init ==
    /\ pc = "transfer"
    /\ args \in ArgSets
    /\ val_left = args.val_batches
    /\ run = 1
    /\ host_state = FreshState
    /\ state = Replicate(FreshState)
    /\ val_state = Replicate(FreshState)
    /\ metrics_history = EmptyHistory
    /\ store = {}
    /\ latest_epoch = NoStep
    /\ epochs = 0
    /\ step = 0
    /\ val_step = 0
    /\ obs = NoObs
    /\ saved = <<>>
    /\ total_epochs = 0
    /\ path = <<>>
    /\ wd = <<>>

\* Lines 366-374: the transfer restore
TransferRestore ==
    /\ pc = "transfer"
    /\ LET ext == ExternalStoreAt(args.restore_params_ckpt)
       IN IF args.restore_params_ckpt = 0
          THEN /\ pc' = "resume"
               /\ UNCHANGED <<host_state, latest_epoch, obs>>
          ELSE IF ext = {}
          THEN \* restore(None): nothing to restore, the script dies
               /\ pc' = "crashed"
               /\ UNCHANGED <<host_state, latest_epoch, obs>>
          ELSE LET restored == Restore(ext, LatestStep(ext))
               IN /\ latest_epoch' = LatestStep(ext)
                  /\ host_state' = TransferReplace(host_state, restored)
                  /\ obs' = [obs EXCEPT !.transfer = {restored}]
                  /\ pc' = "resume"
    /\ UNCHANGED <<args, run, state, val_state, metrics_history, store, epochs,
                   step, val_step, val_left, saved, persistVars>>

\* Lines 376-386: the resume restore, then replicate
ResumeRestore ==
    /\ pc = "resume"
    /\ LET latest == LatestStep(store)
       IN IF latest # NoStep
          THEN LET restored == Restore(store, latest)
                   st == ResumeReplace(host_state, restored)
               IN /\ latest_epoch' = latest
                  /\ host_state' = st
                  /\ state' = Replicate(st)
                  /\ metrics_history' = restored.metrics_history
                  /\ obs' = [obs EXCEPT !.resumed = {restored}]
          ELSE /\ latest_epoch' = 0
               /\ state' = Replicate(host_state)
               /\ UNCHANGED <<host_state, metrics_history, obs>>
    /\ pc' = "train"
    /\ UNCHANGED <<args, run, val_state, store, epochs, step, val_step, val_left,
                   saved, persistVars>>

\* Lines 390-402: one iteration of the training loop up to the epoch test
TrainStep ==
    /\ pc = "train"
    /\ total_epochs < MaxEpochs
    /\ \E batch \in [Replicas -> Batches] :
          LET new == [r \in Replicas |-> train_step(state, batch, r)]
              grads == [q \in Replicas |->
                          GradOf(state[q].params, batch[q], FoldIn(q, state[q].step))]
              losses == [q \in Replicas |-> LossOf(state[q].params, batch[q])]
              shown == step % DisplayEvery = 0
          IN /\ state' = new
             /\ obs' = [obs EXCEPT
                   !.nTrain = @ + 1,
                   !.site = IF shown THEN "display" ELSE @,
                   !.count = IF shown THEN Unreplicate(new).metrics.count ELSE @,
                   !.trainAcc = [total |-> @.total + SumOver(losses, Replicas),
                                 count |-> @.count + NumReplicas],
                   !.mean = SumOver(grads, Replicas) \div NumReplicas,
                   !.applied = [r \in Replicas |->
                                  (new[r].params - state[r].params) % ParamMod],
                   !.differ = \E q \in Replicas : grads[q] # grads[1],
                   !.prevStep = [r \in Replicas |-> state[r].step]]
    /\ IF (step + 1) % args.num_steps_per_epoch = 0
       THEN pc' = "epoch_end" /\ step' = step
       ELSE pc' = "train" /\ step' = step + 1
    /\ UNCHANGED <<args, run, host_state, val_state, metrics_history, store,
                   latest_epoch, epochs, val_step, val_left, saved, persistVars>>

\* A reset that leaves the accumulator as it is
KeepMetrics(st) == st

\* Lines 409-412: state.replace(metrics=state.metrics.empty())
ResetMetrics(st) == [st EXCEPT !.metrics = EmptyMetrics]

\* Lines 403-415: the train snapshot, the reset, val_state = state
TrainSnapshot ==
    /\ pc = "epoch_end"
    /\ LET merged_metrics == Unreplicate(state).metrics
           cleared == [r \in Replicas |-> ResetMetrics(state[r])]
       IN /\ metrics_history' =
                [metrics_history EXCEPT !.train_loss = Append(@, Compute(merged_metrics))]
          /\ state' = cleared
          /\ val_state' = cleared
          /\ obs' = [obs EXCEPT !.nSnap = @ + 1,
                                !.mean = 0,
                                !.applied = Replicate(0),
                                !.differ = FALSE,
                                !.site = "train",
                                !.count = merged_metrics.count,
                                !.nEval = 0,
                                !.evalAcc = EmptyMetrics]
    /\ val_step' = 0
    /\ total_epochs' = total_epochs + 1
    /\ pc' = "eval"
    /\ UNCHANGED <<args, run, host_state, store, latest_epoch, epochs, step,
                   val_left, saved, decayVars>>

\* Line 418: if val_step == val_samples // global_batch_size: break
Breaks(i) == i = ValSteps

\* Lines 416-419: one iteration of the validation loop
EvalStep ==
    /\ pc = "eval"
    /\ val_left # 0
    /\ \E batch \in [Replicas -> Batches] :
          LET losses == [q \in Replicas |-> LossOf(val_state[q].params, batch[q])]
          IN /\ val_state' = [r \in Replicas |-> eval_step(val_state, batch, r)]
             /\ obs' = [obs EXCEPT
                   !.nEval = @ + 1,
                   !.evalAcc = [total |-> @.total + SumOver(losses, Replicas),
                                count |-> @.count + NumReplicas]]
    /\ val_left' = IF val_left > 0 THEN val_left - 1 ELSE val_left
    /\ IF Breaks(val_step)
       THEN pc' = "val_end" /\ val_step' = val_step
       ELSE pc' = "eval" /\ val_step' = val_step + 1
    /\ UNCHANGED <<args, run, host_state, state, metrics_history, store,
                   latest_epoch, epochs, step, saved, persistVars>>

\* Line 416: val_ds yields no further batch, the for loop ends
EvalExhausted ==
    /\ pc = "eval"
    /\ val_left = 0
    /\ pc' = "val_end"
    /\ UNCHANGED <<args, run, host_state, state, val_state, metrics_history, store,
                   latest_epoch, epochs, step, val_step, val_left, obs, saved,
                   persistVars>>

\* Lines 421-432: the validation snapshot
ValSnapshot ==
    /\ pc = "val_end"
    /\ LET m == Unreplicate(val_state).metrics
       IN /\ metrics_history' =
                [metrics_history EXCEPT !.val_loss = Append(@, Compute(m))]
          /\ obs' = [obs EXCEPT !.site = "val", !.count = m.count]
    /\ pc' = "save"
    /\ UNCHANGED <<args, run, host_state, state, val_state, store, latest_epoch,
                   epochs, step, val_step, val_left, saved, persistVars>>

\* Line 438: epochs + latest_epoch
SaveIndex == epochs + latest_epoch

\* Lines 444-448: epochs += 1; leave the loop or go on with the next batch
AfterSave ==
    /\ epochs' = epochs + 1
    /\ IF epochs + 1 = args.num_epochs
       THEN pc' = "done" /\ step' = step
       ELSE pc' = "train" /\ step' = step + 1

\* Lines 434-448: the checkpoint save and the end of the iteration
Save ==
    /\ pc = "save"
    /\ LET metric == metrics_history.val_loss[Len(metrics_history.val_loss)]
           rec == Record(SaveIndex, Unreplicate(val_state), metrics_history, metric)
           all == store \cup {rec}
       IN /\ obs' = [obs EXCEPT !.nSave = @ + 1, !.saveMetric = metric,
                                !.trainAcc = EmptyMetrics]
          /\ saved' = Append(saved, metric)
          /\ \/ \* the record is written, then the old ones are removed
                /\ ~Collides(store, SaveIndex)
                /\ IF Cardinality(all) > MaxToKeep
                   THEN \E old \in Evictable(all) : store' = all \ {old}
                   ELSE store' = all
                /\ AfterSave
             \/ \* the index is not above the last one: save() returns False
                /\ Collides(store, SaveIndex)
                /\ UNCHANGED store
                /\ AfterSave
             \/ \* the index is not above the last one: save() raises
                /\ Collides(store, SaveIndex)
                /\ pc' = "crashed"
                /\ UNCHANGED <<store, epochs, step>>
    /\ UNCHANGED <<args, run, host_state, state, val_state, metrics_history,
                   latest_epoch, val_step, val_left, persistVars>>

\* The script is started again under the same run name and on the same dataset,
\* with the same --restore-params-ckpt and any --epochs, after it ended or died:
\* the store is what persists
Rerun ==
    /\ pc \in {"done", "crashed"}
    /\ run < MaxRuns
    /\ total_epochs < MaxEpochs
    /\ run' = run + 1
    /\ \E n \in 0..MaxEpochs : Startup([args EXCEPT !.num_epochs = n])
    /\ UNCHANGED <<store, saved, persistVars>>

Next ==
    \/ TransferRestore
    \/ ResumeRestore
    \/ TrainStep
    \/ TrainSnapshot
    \/ EvalStep
    \/ EvalExhausted
    \/ ValSnapshot
    \/ Save
    \/ Rerun

Spec == Init /\ [][Next]_vars

\* ---------------------------------------------------------- should_decay
\* Names a segment of a parameter path can have
Keys == {"kernel", "bias", "scale", "attention_bias", "mask_token", "Dense_0"}

\* The paths of the leaves of a parameter tree: at least one segment
Paths == UNION {[1..n -> Keys] : n \in 1..MaxPathLen}

\* A predicate that looks for "attention_bias" in the parent segment only
should_decay_parent_only(p) ==
    LET is_kernel == p[Len(p)] = "kernel"
        is_cpb == Len(p) > 1 /\ p[Len(p) - 1] = "attention_bias"
    IN is_kernel /\ ~is_cpb

\* create_train_state.should_decay(path, _)
should_decay(p) ==
    LET is_kernel == p[Len(p)] = "kernel"
        is_cpb == "attention_bias" \in {p[i] : i \in DOMAIN p}
    IN is_kernel /\ ~is_cpb

\* The state of the script when create_train_state builds wd_mask
InitDecay ==
    /\ path \in Paths
    /\ wd = <<>>
    /\ pc = "create_train_state"
    /\ args = [num_epochs |-> 1, restore_params_ckpt |-> 0,
               num_steps_per_epoch |-> 1, val_samples |-> 0, val_batches |-> 0 - 1]
    /\ val_left = 0 - 1
    /\ run = 1
    /\ host_state = FreshState
    /\ state = Replicate(FreshState)
    /\ val_state = Replicate(FreshState)
    /\ metrics_history = EmptyHistory
    /\ store = {}
    /\ latest_epoch = NoStep
    /\ epochs = 0
    /\ step = 0
    /\ val_step = 0
    /\ obs = NoObs
    /\ saved = <<>>
    /\ total_epochs = 0

scriptVars == <<pc, args, run, host_state, state, val_state, metrics_history,
                store, latest_epoch, epochs, step, val_step, val_left, obs, saved,
                total_epochs>>

\* Line 60: tree_map_with_path calls should_decay on a leaf
DecayLeaf ==
    /\ wd = <<>>
    /\ wd' = <<should_decay(path)>>
    /\ UNCHANGED <<path, scriptVars>>

\* Line 60: tree_map_with_path goes on to another leaf
NextLeaf ==
    /\ wd # <<>>
    /\ path' \in Paths
    /\ wd' = <<>>
    /\ UNCHANGED scriptVars

NextDecay == DecayLeaf \/ NextLeaf

SpecDecay == InitDecay /\ [][NextDecay]_vars

\* ------------------------------------------------------------- properties
Last(q) == q[Len(q)]

AtLoopEntry == pc = "train" /\ obs.nTrain = 0

\* C1: whenever the run's own store holds a record at startup, the state that
\* enters the training loop has its step counter, optimizer state, parameters
\* and metrics history all taken from the latest record of that store
C1_ResumeRestoresFullState ==
    (AtLoopEntry /\ obs.resumed # {}) =>
        \A rec \in obs.resumed : \A r \in Replicas :
            /\ state[r].step = rec.model.step
            /\ state[r].opt_state = rec.model.opt_state
            /\ state[r].params = rec.model.params
            /\ metrics_history = rec.metrics_history

\* What the code does instead: parameters and history come from the record,
\* the step counter and the optimizer state stay fresh
C1_ResumeKeepsFreshStep ==
    (AtLoopEntry /\ obs.resumed # {}) =>
        \A rec \in obs.resumed : \A r \in Replicas :
            /\ state[r].step = FreshState.step
            /\ state[r].opt_state = FreshState.opt_state
            /\ state[r].params = rec.model.params
            /\ metrics_history = rec.metrics_history

\* C2: a transfer restore with no own-run checkpoint replaces only the
\* parameters, by those of the latest record of the external store: the step
\* counter, the optimizer state, the running metrics and the metrics history
\* are those of a freshly created state
C2_TransferRestoresParamsOnly ==
    ((pc = "resume" \/ AtLoopEntry) /\ obs.transfer # {} /\ obs.resumed = {}) =>
        \A ext \in obs.transfer :
            LET want == [FreshState EXCEPT !.params = ext.model.params]
            IN /\ ext \in ExternalStoreAt(args.restore_params_ckpt)
               /\ \A o \in ExternalStoreAt(args.restore_params_ckpt) :
                     o.index <= ext.index
               /\ host_state = want
               /\ AtLoopEntry => \A r \in Replicas : state[r] = want
               /\ metrics_history = EmptyHistory

C2_Witness ==
    /\ AtLoopEntry
    /\ obs.transfer # {}
    /\ obs.resumed = {}
    /\ state[1].params # FreshState.params
    /\ state[1].step = 0

\* The k lowest of a set of metrics
LowestOf(V, k) == {v \in V : Cardinality({w \in V : FloatLess(w, v)}) < k}

Range(q) == {q[i] : i \in DOMAIN q}

Min(a, b) == IF a < b THEN a ELSE b

\* C3: after any sequence of epoch-boundary saves with pairwise distinct
\* validation losses, the records in the run's store are exactly the min(2, n)
\* records with the lowest validation loss among the n saved so far
C3_BestTwoRetained ==
    (Cardinality(Range(saved)) = Len(saved) /\ NaN \notin Range(saved)) =>
        /\ {r.val_loss : r \in store} = LowestOf(Range(saved), MaxToKeep)
        /\ Cardinality(store) = Min(MaxToKeep, Len(saved))

\* C4: at every epoch boundary the eval loop executes exactly
\* val_samples // global_batch_size eval steps before the validation metric is
\* computed, when the validation source never runs dry
C4_EvalStepsFloor ==
    (pc = "val_end" /\ args.val_batches = 0 - 1) => obs.nEval = ValSteps

\* C5: a run executes exactly num_epochs * num_steps_per_epoch train steps and
\* num_epochs epoch boundaries (one snapshot and one save each) and then stops
C5_TerminatesAfterEpochs ==
    /\ obs.nTrain <= args.num_epochs * args.num_steps_per_epoch
    /\ obs.nSnap <= args.num_epochs
    /\ obs.nSave <= args.num_epochs
    /\ pc = "done" =>
          /\ obs.nTrain = args.num_epochs * args.num_steps_per_epoch
          /\ obs.nSnap = args.num_epochs
          /\ obs.nSave = args.num_epochs

\* C6: the parameters, the optimizer state and the step counter are identical
\* on all replicas; after a train step every replica has applied the mean of
\* all replicas' gradients of that step and its step counter has grown by 1
C6_ReplicasConsistent ==
    /\ \A r, q \in Replicas :
          /\ state[r].params = state[q].params
          /\ state[r].opt_state = state[q].opt_state
          /\ state[r].step = state[q].step
    /\ (obs.nTrain > 0 /\ pc \in {"train", "epoch_end"}) =>
          \A r \in Replicas :
             /\ state[r].step = obs.prevStep[r] + 1
             /\ obs.applied[r] = obs.mean % ParamMod

C6_Witness ==
    /\ pc \in {"train", "epoch_end"}
    /\ obs.nTrain > 1
    /\ obs.differ
    /\ obs.mean > 0
    /\ state[1].params # FreshState.params

\* C7: should_decay(path) is true exactly when the last segment of the path is
\* "kernel" and no segment of the path is "attention_bias"
C7_ShouldDecay ==
    wd # <<>> =>
        (wd[1] <=> (/\ Last(path) = "kernel"
                    /\ \A i \in 1..Len(path) : path[i] # "attention_bias"))

C7_Witness ==
    /\ wd = <<FALSE>>
    /\ Len(path) = 3
    /\ path[1] = "attention_bias"
    /\ path[2] = "Dense_0"
    /\ path[3] = "kernel"

\* C8: the train_loss appended at an epoch boundary is the average over the
\* losses of all replicas in that epoch's train steps, the val_loss appended,
\* which is the metric of that save, the average over the losses of all
\* replicas in that epoch's eval steps, and the state carried into the next
\* epoch has an empty metrics accumulator
C8_EpochMetricsIsolated ==
    /\ pc \in {"eval", "val_end", "save"} =>
          Last(metrics_history.train_loss) = Compute(obs.trainAcc)
    /\ pc = "save" => Last(metrics_history.val_loss) = Compute(obs.evalAcc)
    /\ (obs.nSave > 0 /\ pc \in {"train", "done", "crashed"}) =>
          /\ obs.saveMetric = Last(metrics_history.val_loss)
          /\ \A rec \in store :
                rec.metrics_history = metrics_history => rec.val_loss = obs.saveMetric
    /\ (pc \in {"eval", "val_end", "save"}
          \/ (pc = "train" /\ obs.nTrain = obs.nSnap * args.num_steps_per_epoch)) =>
          \A r \in Replicas : state[r].metrics = EmptyMetrics

C8_Witness ==
    /\ pc = "save"
    /\ obs.nSnap = 2
    /\ obs.nEval = 2
    /\ Len(metrics_history.train_loss) = 2
    /\ metrics_history.train_loss[1] # metrics_history.train_loss[2]
    /\ Last(metrics_history.val_loss) # Last(metrics_history.train_loss)

\* C9: compute() is never invoked on an accumulator with count 0
C9_NoComputeOnEmpty == obs.site # "none" => obs.count > 0

\* C10: every save uses an index strictly greater than every index the store
\* holds at that moment
C10_SaveIndexFresh ==
    pc = "save" => \A rec \in store : SaveIndex > rec.index
====
